---- MODULE Spec2Model ----
(***************************************************************************)
(* Grover search on a dense state-vector simulator (src/src/grover.py).    *)
(*                                                                         *)
(* Amplitudes are kept exactly.  Every matrix and vector the program       *)
(* builds has entries of the form  k / sqrt(2)^e  with k an integer, so an *)
(* Operator is a record [nbits, e, m] and a State a record [nbits, e, v]   *)
(* whose entries m[i,j], v[i] are the integers k and whose exponent e      *)
(* counts the factors 1/sqrt(2).  The probability of basis index i is      *)
(* v[i]^2 / 2^e.  Only real amplitudes occur in the program.               *)
(* Line 0 is the most significant bit of a basis index; the ancilla is the *)
(* last line, i.e. the least significant bit.                              *)
(***************************************************************************)
EXTENDS Integers, Sequences, FiniteSets, TLC

VARIABLES
  pc,          \* position in main / run_experiment / the scheduler study
  caller,      \* "main" (the 3..7 driver) or "direct" (run_experiment called)
  nbits,       \* argument of run_experiment
  n,           \* n = 2**nbits
  answers,     \* the array captured by the closure f
  op_zero,     \* Operator(zero_projector)
  u,           \* the oracle Uf over nbits+1 lines
  psi,         \* the state vector
  line,        \* loop variable i of the per-line Hadamard loop
  inversion,   \* diffusion padded with the identity on the ancilla
  grover,      \* the composite iterate
  iterations,  \* scheduled number of iterations
  applied,     \* how many times the loop body has run
  maxbits,     \* first component of psi.maxprob()
  maxprobs,    \* second component of psi.maxprob(), as <<numerator, denominator>>
  result,      \* f(maxbits[:-1])
  raised,      \* TRUE once AssertionError has been raised
  qcircuits    \* the second derivation of the iteration count (comment, l. 95-98)

vars == <<pc, caller, nbits, n, answers, op_zero, u, psi, line, inversion,
          grover, iterations, applied, maxbits, maxprobs, result, raised,
          qcircuits>>

----------------------------------------------------------------------------
(* Bounds of the model. *)

\* largest nbits for which an experiment is run with full matrices
MaxBits == 3

\* largest nbits for which the iteration scheduler alone is studied
MaxSchedBits == 27

\* resolution of the fixed-point numbers that stand for the floats of the
\* arcsin/arccos derivation: a float x is the integer floor(x * FixedScale)
FixedScale == 10000

(* Program constants. *)

\* main: for nbits in range(3, 8)
MainFirst == 3
MainStop == 8

\* math.pi, held as floor(pi^2 * 2^26): pi^2 = 9.8696044010893586...
MathPiSq == [num |-> 662337939, shift |-> 26]

----------------------------------------------------------------------------
(* Integer helpers. *)

RECURSIVE Pow2(_)
Pow2(k) == IF k = 0 THEN 1 ELSE 2 * Pow2(k - 1)

\* sum of f[0] .. f[k-1]
RECURSIVE SumF(_, _)
SumF(f, k) == IF k = 0 THEN 0 ELSE f[k - 1] + SumF(f, k - 1)

\* floor(sqrt(y)) for 0 <= y < 2^31, by bisection on lo^2 <= y < hi^2
RECURSIVE ISqrtIn(_, _, _)
ISqrtIn(y, lo, hi) ==
  IF hi - lo <= 1 THEN lo
  ELSE LET mid == (lo + hi) \div 2
       IN  IF mid * mid <= y THEN ISqrtIn(y, mid, hi) ELSE ISqrtIn(y, lo, mid)

ISqrt(y) == ISqrtIn(y, 0, 46341)

Dim(k) == 0 .. (Pow2(k) - 1)

----------------------------------------------------------------------------
(* The linear-algebra library the program imports (src.lib.ops,            *)
(* src.lib.state, src.lib.helper).                                         *)

\* helper.bits2val: big-endian value of a bit tuple
RECURSIVE bits2val(_)
bits2val(bits) ==
  IF Len(bits) = 0 THEN 0
  ELSE 2 * bits2val(SubSeq(bits, 1, Len(bits) - 1)) + bits[Len(bits)]

\* the k-bit tuple of index i (inverse of bits2val)
val2bits(i, k) == [p \in 1 .. k |-> (i \div Pow2(k - p)) % 2]

\* ops.Operator(matrix) over k lines, entries integers, no 1/sqrt(2) factor
Operator(k, mat) == [nbits |-> k, e |-> 0, m |-> mat]

\* ops.Identity(k)
Identity(k) ==
  Operator(k, [i \in Dim(k), j \in Dim(k) |-> IF i = j THEN 1 ELSE 0])

\* A * B on operators: Kronecker product, A's lines before B's
Kron(A, B) ==
  LET db == Pow2(B.nbits)
      k  == A.nbits + B.nbits
  IN  [nbits |-> k, e |-> A.e + B.e,
       m |-> [i \in Dim(k), j \in Dim(k) |->
                A.m[i \div db, j \div db] * B.m[i % db, j % db]]]

\* ops.Hadamard(): the single-line Hadamard, entries +-1/sqrt(2)
Hadamard1 ==
  [nbits |-> 1, e |-> 1,
   m |-> [i \in Dim(1), j \in Dim(1) |-> IF i = 1 /\ j = 1 THEN -1 ELSE 1]]

\* ops.Hadamard(k): k-fold tensor power of the single-line Hadamard
RECURSIVE Hadamard(_)
Hadamard(k) == IF k = 1 THEN Hadamard1 ELSE Kron(Hadamard1, Hadamard(k - 1))

\* A * c for a number c (c an integer here)
Scale(A, c) ==
  [A EXCEPT !.m = [i \in Dim(A.nbits), j \in Dim(A.nbits) |-> c * A.m[i, j]]]

\* A - B for operators with the same exponent
Minus(A, B) ==
  [A EXCEPT !.m = [i \in Dim(A.nbits), j \in Dim(A.nbits) |-> A.m[i, j] - B.m[i, j]]]

\* A(B) for operators of the same size: the matrix product A.B, so that B
\* acts first and A second
Compose(A, B) ==
  LET k == A.nbits
      d == Pow2(k)
  IN  [nbits |-> k, e |-> A.e + B.e,
       m |-> [i \in Dim(k), j \in Dim(k) |->
                SumF([t \in Dim(k) |-> A.m[i, t] * B.m[t, j]], d)]]

\* A(s) for an operator and a state of the same size: the new state A.s
Apply(A, s) ==
  LET k == A.nbits
      d == Pow2(k)
  IN  [nbits |-> k, e |-> A.e + s.e,
       v |-> [i \in Dim(k) |-> SumF([t \in Dim(k) |-> A.m[i, t] * s.v[t]], d)]]

\* state.apply(op, idx): a one-line operator applied to line idx, the
\* identity on every other line
ApplyToLine(s, op, idx) ==
  LET left  == IF idx = 0 THEN op ELSE Kron(Identity(idx), op)
      rest  == s.nbits - idx - 1
      whole == IF rest = 0 THEN left ELSE Kron(left, Identity(rest))
  IN  Apply(whole, s)

\* state.zeros(k) = |0..0>, state.ones(k) = |1..1>
zeros(k) == [nbits |-> k, e |-> 0, v |-> [i \in Dim(k) |-> IF i = 0 THEN 1 ELSE 0]]
ones(k) ==
  [nbits |-> k, e |-> 0, v |-> [i \in Dim(k) |-> IF i = Pow2(k) - 1 THEN 1 ELSE 0]]

\* s * t on states: Kronecker product, s's lines before t's
StateKron(s, t) ==
  LET dt == Pow2(t.nbits)
      k  == s.nbits + t.nbits
  IN  [nbits |-> k, e |-> s.e + t.e,
       v |-> [i \in Dim(k) |-> s.v[i \div dt] * t.v[i % dt]]]

\* numerator of the probability of basis index i; the denominator is Pow2(s.e)
ProbNum(s, i) == s.v[i] * s.v[i]

\* state.maxprob(): the basis indices of maximal probability.  The state of
\* this program always has ties (the two ancilla values), so which of them
\* is returned is left open.
MaxProbSet(s) ==
  {i \in Dim(s.nbits) : \A j \in Dim(s.nbits) : ProbNum(s, j) <= ProbNum(s, i)}

\* the closure func(*bits) that make_f returns, over the captured array ans
func(ans, bits) == ans[bits2val(bits)]

\* ops.OracleUf(k, f): |x>|y> -> |x>|y xor f(x)> on k = (input lines) + 1
\* lines; f is the closure over the array ans
OracleUf(k, ans) ==
  Operator(k, [i \in Dim(k), j \in Dim(k) |->
                 IF i = (2 * (j \div 2))
                        + (((j % 2) + func(ans, val2bits(j \div 2, k - 1))) % 2)
                 THEN 1 ELSE 0])

----------------------------------------------------------------------------
(* run_experiment, statement by statement. *)

NoOperator == Operator(0, [i \in Dim(0), j \in Dim(0) |-> 0])
NoState == [nbits |-> 0, e |-> 0, v |-> [i \in Dim(0) |-> 0]]
NoQcircuits == [angle_to_rotate |-> 0, rotation_angle |-> 0, iterations |-> 0]

\* answers = np.zeros(num_inputs); answers[answer_true] = 1
make_f(d, answer_true) ==
  [x \in Dim(d) |-> IF x = answer_true THEN 1 ELSE 0]

\* the projector with its single 1 at [1, 1]
zero_projector_at_one(k) ==
  [i \in Dim(k), j \in Dim(k) |-> IF i = 1 /\ j = 1 THEN 1 ELSE 0]

\* zero_projector = np.zeros((n, n)); zero_projector[0, 0] = 1
zero_projector(k) ==
  [i \in Dim(k), j \in Dim(k) |-> IF i = 0 /\ j = 0 THEN 1 ELSE 0]

\* the ancilla line started in |0>
InitialPsiAncillaZero(k) == StateKron(zeros(k), zeros(1))

\* psi = state.zeros(nbits) * state.ones(1)
InitialPsi(k) == StateKron(zeros(k), ones(1))

\* the reflection without the factor 2
ReflectionUnscaled(oz, k) == Minus(oz, Identity(k))

\* reflection = op_zero * 2.0 - ops.Identity(nbits)
Reflection(oz, k) == Minus(Scale(oz, 2), Identity(k))

\* hn(reflection(hn)): the diffusion operator over the input lines
Diffusion(hn, refl) == Compose(hn, Compose(refl, hn))

\* inversion = hn(reflection(hn)) * ops.Identity()
Inversion(hn, refl) == Kron(Diffusion(hn, refl), Identity(1))

\* the two factors composed the other way round
GroverSwapped(inv, uf) == Compose(uf, inv)

\* grover = inversion(u)
Grover(inv, uf) == Compose(inv, uf)

\* floor(pi/2 * sqrt(size)), for size a power of two up to 2^28
TwiceIterations(size) ==
  ISqrt(MathPiSq.num \div (Pow2(MathPiSq.shift + 2) \div size))

\* pi/4 * sqrt(size) rounded to the nearest integer: floor(pi/4*sqrt(size) + 0.5)
IterationsRounded(size) == (TwiceIterations(size) + 1) \div 2

\* pi/4 * sqrt(size) rounded up (it is never an integer)
IterationsCeil(size) == (TwiceIterations(size) \div 2) + 1

\* iterations = int(math.pi / 4 * math.sqrt(n)) for n a power of two up to
\* 2^30: the largest r with r^2 <= pi^2 * n / 16
Iterations(size) ==
  ISqrt(MathPiSq.num \div (Pow2(MathPiSq.shift + 4) \div size))

\* a loop that runs one pass too many
LoopContinuesOnceMore(done, count) == done <= count

\* for _ in range(iterations): the body runs while fewer than iterations
\* passes are done
LoopContinues(done, count) == done < count

\* maxbits[:-1]
StripAncilla(bits) == SubSeq(bits, 1, Len(bits) - 1)

\* a check that lets the value 0 pass
VerificationFailsAboveOne(res) == res > 1

\* if result != 1: raise AssertionError
VerificationFails(res) == res # 1

Init ==
  /\ \/ caller = "main" /\ nbits = MainFirst
     \/ caller = "direct" /\ nbits \in 1 .. MaxBits
  /\ pc = "entry"
  /\ n = 0
  /\ answers = <<>>
  /\ op_zero = NoOperator
  /\ u = NoOperator
  /\ psi = NoState
  /\ line = 0
  /\ inversion = NoOperator
  /\ grover = NoOperator
  /\ iterations = 0
  /\ applied = 0
  /\ maxbits = <<>>
  /\ maxprobs = <<0, 1>>
  /\ result = 0
  /\ raised = FALSE
  /\ qcircuits = NoQcircuits

\* lines 35-56: hn, h, n and op_zero
BuildProjector ==
  /\ pc = "entry"
  /\ n' = Pow2(nbits)
  /\ op_zero' = Operator(nbits, zero_projector(nbits))
  /\ pc' = "make_f"
  /\ UNCHANGED <<caller, nbits, answers, u, psi, line, inversion, grover,
                 iterations, applied, maxbits, maxprobs, result, raised, qcircuits>>

\* lines 69-70: f = make_f(nbits); u = ops.OracleUf(nbits+1, f).  The marked
\* value is np.random.randint(0, num_inputs).
BuildOracle ==
  /\ pc = "make_f"
  /\ \E answer_true \in Dim(nbits) :
       /\ answers' = make_f(nbits, answer_true)
       /\ u' = OracleUf(nbits + 1, make_f(nbits, answer_true))
  /\ pc' = "init_psi"
  /\ UNCHANGED <<caller, nbits, n, op_zero, psi, line, inversion, grover,
                 iterations, applied, maxbits, maxprobs, result, raised, qcircuits>>

\* line 74
BuildState ==
  /\ pc = "init_psi"
  /\ psi' = InitialPsi(nbits)
  /\ line' = 0
  /\ pc' = "hadamard"
  /\ UNCHANGED <<caller, nbits, n, answers, op_zero, u, inversion, grover,
                 iterations, applied, maxbits, maxprobs, result, raised, qcircuits>>

\* lines 75-76: one pass of  for i in range(nbits + 1): psi.apply(h, i)
HadamardLine ==
  /\ pc = "hadamard"
  /\ line < nbits + 1
  /\ psi' = ApplyToLine(psi, Hadamard1, line)
  /\ line' = line + 1
  /\ pc' = IF line + 1 < nbits + 1 THEN "hadamard" ELSE "compose"
  /\ UNCHANGED <<caller, nbits, n, answers, op_zero, u, inversion, grover,
                 iterations, applied, maxbits, maxprobs, result, raised, qcircuits>>

\* lines 83-85 and 102: the Grover operator and the iteration count
BuildGrover ==
  /\ pc = "compose"
  /\ LET inv == Inversion(Hadamard(nbits), Reflection(op_zero, nbits))
     IN  /\ inversion' = inv
         /\ grover' = Grover(inv, u)
  /\ iterations' = Iterations(n)
  /\ applied' = 0
  /\ pc' = "loop"
  /\ UNCHANGED <<caller, nbits, n, answers, op_zero, u, psi, line,
                 maxbits, maxprobs, result, raised, qcircuits>>

\* lines 104-105: one pass of the amplification loop
GroverStep ==
  /\ pc = "loop"
  /\ LoopContinues(applied, iterations)
  /\ psi' = Apply(grover, psi)
  /\ applied' = applied + 1
  /\ UNCHANGED <<pc, caller, nbits, n, answers, op_zero, u, line, inversion,
                 grover, iterations, maxbits, maxprobs, result, raised, qcircuits>>

\* lines 113-114: the loop is over; maxprob and the predicate on the winner
Measure ==
  /\ pc = "loop"
  /\ ~LoopContinues(applied, iterations)
  /\ \E idx \in MaxProbSet(psi) :
       /\ maxbits' = val2bits(idx, nbits + 1)
       /\ maxprobs' = <<ProbNum(psi, idx), Pow2(psi.e)>>
       /\ result' = func(answers, StripAncilla(val2bits(idx, nbits + 1)))
  /\ pc' = "check"
  /\ UNCHANGED <<caller, nbits, n, answers, op_zero, u, psi, line, inversion,
                 grover, iterations, applied, raised, qcircuits>>

\* lines 116-117: raise AssertionError, or return
Verify ==
  /\ pc = "check"
  /\ raised' = VerificationFails(result)
  /\ pc' = IF VerificationFails(result) THEN "raised" ELSE "returned"
  /\ UNCHANGED <<caller, nbits, n, answers, op_zero, u, psi, line, inversion,
                 grover, iterations, applied, maxbits, maxprobs, result, qcircuits>>

\* lines 124-125: main goes on to the next nbits of range(3, 8) after an
\* experiment returned.  Experiments beyond MaxBits are not run: main's loop
\* is cut there.
MainNext ==
  /\ pc = "returned"
  /\ caller = "main"
  /\ IF nbits + 1 < MainStop /\ nbits + 1 <= MaxBits
     THEN /\ nbits' = nbits + 1
          /\ pc' = "entry"
     ELSE /\ nbits' = nbits
          /\ pc' = "exit"
  /\ n' = 0
  /\ answers' = <<>>
  /\ op_zero' = NoOperator
  /\ u' = NoOperator
  /\ psi' = NoState
  /\ line' = 0
  /\ inversion' = NoOperator
  /\ grover' = NoOperator
  /\ iterations' = 0
  /\ applied' = 0
  /\ maxbits' = <<>>
  /\ maxprobs' = <<0, 1>>
  /\ result' = 0
  /\ UNCHANGED <<caller, raised, qcircuits>>

Next ==
  \/ BuildProjector
  \/ BuildOracle
  \/ BuildState
  \/ HadamardLine
  \/ BuildGrover
  \/ GroverStep
  \/ Measure
  \/ Verify
  \/ MainNext

Spec == Init /\ [][Next]_vars

\* the program is sequential: a statement that can run does run.  Stated
\* for the two steps of the amplification loop, the loop body and its exit.
FairSpec == Spec /\ WF_vars(GroverStep) /\ WF_vars(Measure)

----------------------------------------------------------------------------
(* The iteration scheduler on its own: line 102 next to the second         *)
(* derivation that the comment of lines 95-98 quotes and calls identical.  *)
(* The floats of the second derivation are fixed-point numbers, a float x  *)
(* being the integer floor(x * FixedScale).  The quotient it rounds lies   *)
(* more than 0.1 from the nearest half-integer for every size of           *)
(* AgreeSizes, the fixed-point error is below 0.01 there.                  *)

\* the sizes for which the two derivations are compared
AgreeSizes == {Pow2(k) : k \in 2 .. 7}

\* math.pi, from 355/113 = 3.14159292
FxPi == (355 * FixedScale) \div 113

FxMul(a, b) == (a * b) \div FixedScale

\* np.sqrt(1 / n)
FxSqrtInv(size) == ISqrt((FixedScale * FixedScale) \div size)

\* np.arcsin(x) for 0 <= x <= 1/2, by its power series up to x^11
FxArcsin(x) ==
  LET x2  == FxMul(x, x)
      x3  == FxMul(x2, x)
      x5  == FxMul(x3, x2)
      x7  == FxMul(x5, x2)
      x9  == FxMul(x7, x2)
      x11 == FxMul(x9, x2)
  IN  x + (x3 \div 6) + ((3 * x5) \div 40) + ((5 * x7) \div 112)
        + ((35 * x9) \div 1152) + ((63 * x11) \div 2816)

\* np.arccos(x)
FxArccos(x) == (FxPi \div 2) - FxArcsin(x)

\* angle_to_rotate = np.arccos(np.sqrt(1 / n))
AngleToRotate(size) == FxArccos(FxSqrtInv(size))

\* rotation_angle = 2 * np.arcsin(np.sqrt(1 / n))
RotationAngle(size) == 2 * FxArcsin(FxSqrtInv(size))

\* iterations = int(round(angle_to_rotate / rotation_angle))
QcircuitsIterations(angle, rotation) == ((2 * angle) + rotation) \div (2 * rotation)

SchedInit ==
  /\ caller = "scheduler"
  /\ nbits \in 0 .. MaxSchedBits
  /\ pc = "sched_entry"
  /\ n = 0
  /\ answers = <<>>
  /\ op_zero = NoOperator
  /\ u = NoOperator
  /\ psi = NoState
  /\ line = 0
  /\ inversion = NoOperator
  /\ grover = NoOperator
  /\ iterations = 0
  /\ applied = 0
  /\ maxbits = <<>>
  /\ maxprobs = <<0, 1>>
  /\ result = 0
  /\ raised = FALSE
  /\ qcircuits = NoQcircuits

\* line 37: n = 2**nbits
SchedSize ==
  /\ pc = "sched_entry"
  /\ n' = Pow2(nbits)
  /\ pc' = "sched_count"
  /\ UNCHANGED <<caller, nbits, answers, op_zero, u, psi, line, inversion, grover,
                 iterations, applied, maxbits, maxprobs, result, raised, qcircuits>>

\* line 102
SchedCount ==
  /\ pc = "sched_count"
  /\ iterations' = Iterations(n)
  /\ pc' = "sched_angle"
  /\ UNCHANGED <<caller, nbits, n, answers, op_zero, u, psi, line, inversion,
                 grover, applied, maxbits, maxprobs, result, raised, qcircuits>>

\* line 96
SchedAngle ==
  /\ pc = "sched_angle"
  /\ n \in AgreeSizes
  /\ qcircuits' = [qcircuits EXCEPT !.angle_to_rotate = AngleToRotate(n)]
  /\ pc' = "sched_rotation"
  /\ UNCHANGED <<caller, nbits, n, answers, op_zero, u, psi, line, inversion,
                 grover, iterations, applied, maxbits, maxprobs, result, raised>>

\* line 97
SchedRotation ==
  /\ pc = "sched_rotation"
  /\ qcircuits' = [qcircuits EXCEPT !.rotation_angle = RotationAngle(n)]
  /\ pc' = "sched_round"
  /\ UNCHANGED <<caller, nbits, n, answers, op_zero, u, psi, line, inversion,
                 grover, iterations, applied, maxbits, maxprobs, result, raised>>

\* line 98
SchedRound ==
  /\ pc = "sched_round"
  /\ qcircuits' =
       [qcircuits EXCEPT !.iterations =
          QcircuitsIterations(qcircuits.angle_to_rotate, qcircuits.rotation_angle)]
  /\ pc' = "sched_done"
  /\ UNCHANGED <<caller, nbits, n, answers, op_zero, u, psi, line, inversion,
                 grover, iterations, applied, maxbits, maxprobs, result, raised>>

SchedNext ==
  \/ SchedSize
  \/ SchedCount
  \/ SchedAngle
  \/ SchedRotation
  \/ SchedRound

SchedSpec == SchedInit /\ [][SchedNext]_vars

----------------------------------------------------------------------------
(* Properties. *)

\* the positions at which the outcome has been selected
Selected == {"check", "returned", "raised"}

\* the positions at which psi is a state of nbits+1 lines
HasState == {"hadamard", "compose", "loop"} \cup Selected

\* sum of the squared integer amplitudes of s
NormNum(s) == SumF([i \in Dim(s.nbits) |-> ProbNum(s, i)], Pow2(s.nbits))

\* numerator of the probability of reading x on the input lines (the ancilla
\* summed out); the denominator is Pow2(s.e)
ProbInputNum(s, x) == ProbNum(s, 2 * x) + ProbNum(s, (2 * x) + 1)

\* the input value the selection settled on
Winner == bits2val(StripAncilla(maxbits))

\* the basis state |j> of k lines
Basis(k, j) == [nbits |-> k, e |-> 0, v |-> [i \in Dim(k) |-> IF i = j THEN 1 ELSE 0]]

\* s after the single-line Hadamard on each of its first k lines
RECURSIVE HadamardLines(_, _)
HadamardLines(s, k) ==
  IF k = 0 THEN s ELSE ApplyToLine(HadamardLines(s, k - 1), Hadamard1, k - 1)

\* A applied k times in a row to s
RECURSIVE IterApply(_, _, _)
IterApply(A, k, s) == IF k = 0 THEN s ELSE Apply(A, IterApply(A, k - 1, s))

\* C1 as stated: for every nbits >= 1 the selected winner satisfies the
\* predicate and is read on the input lines with probability above 1/2.
C1_EveryWidth ==
  pc \in Selected =>
    /\ result = 1
    /\ 2 * ProbInputNum(psi, Winner) > Pow2(psi.e)

\* C1 (amended): for every nbits >= 2 and every single-marked predicate the
\* selected winner w has f(w) = 1 and the probability of reading w on the
\* input lines after the last iteration is greater than 1/2.
C1_WinnerFromTwoLines ==
  (pc \in Selected /\ nbits >= 2) =>
    /\ result = 1
    /\ func(answers, val2bits(Winner, nbits)) = 1
    /\ 2 * ProbInputNum(psi, Winner) > Pow2(psi.e)

C1_Witness == pc = "returned" /\ nbits = 3 /\ caller = "direct" /\ result = 1

\* nbits = 3 and the predicate marks index 5, after the selection
C2_Scenario == pc \in Selected /\ nbits = 3 /\ answers = make_f(3, 5)

\* C2 as stated: with nbits = 3 and index 5 marked, r = 2, the selection
\* returns 101 plus an ancilla bit, and the probability value it returns
\* is at least 0.78.
C2_ReturnedProbability ==
  C2_Scenario =>
    /\ iterations = 2
    /\ applied = 2
    /\ StripAncilla(maxbits) = <<1, 0, 1>>
    /\ 100 * maxprobs[1] >= 78 * maxprobs[2]

\* C2 (amended): with nbits = 3 and index 5 marked, r = 2 and after 2
\* applications the selection returns a string whose first 3 bits are 101;
\* the probability of 101 on the input lines is 121/128 >= 0.78, and the
\* value returned with the string is that of one 4-line basis state, 121/256.
C2_InputLineProbability ==
  C2_Scenario =>
    /\ iterations = 2
    /\ applied = 2
    /\ StripAncilla(maxbits) = <<1, 0, 1>>
    /\ 100 * ProbInputNum(psi, 5) >= 78 * Pow2(psi.e)
    /\ 128 * ProbInputNum(psi, 5) = 121 * Pow2(psi.e)
    /\ 256 * maxprobs[1] = 121 * maxprobs[2]

C2_Witness == C2_Scenario /\ pc = "returned" /\ maxbits = <<1, 0, 1, 1>>

\* C3 as stated: the iteration count is pi/4*sqrt(N) rounded to the nearest
\* integer, floor(pi/4*sqrt(N) + 0.5).
C3_RoundedToNearest ==
  pc \in {"sched_angle", "sched_rotation", "sched_round", "sched_done"} =>
    iterations = IterationsRounded(n)

\* C3 (amended): for every N = 2^nbits, nbits >= 0, the iteration count is
\* floor(pi/4*sqrt(N)), pi/4*sqrt(N) truncated: the non-negative integer r
\* with r^2 <= pi^2*N/16 < (r+1)^2.
C3_Truncated ==
  pc \in {"sched_angle", "sched_rotation", "sched_round", "sched_done"} =>
    LET bound == MathPiSq.num \div (Pow2(MathPiSq.shift + 4) \div n)
    IN  /\ iterations \in Nat
        /\ iterations * iterations <= bound
        /\ bound < (iterations + 1) * (iterations + 1)

C3_Witness == pc = "sched_angle" /\ n = 128 /\ iterations = 8

\* C4: for N in {4, 8, 16, 32, 64, 128} the count of line 102 and
\* round(arccos(sqrt(1/N)) / (2*arcsin(sqrt(1/N)))) are the same integer.
C4_DerivationsAgree ==
  pc = "sched_done" => (n \in AgreeSizes /\ qcircuits.iterations = iterations)

C4_Witness == pc = "sched_done" /\ n = 128 /\ qcircuits.iterations = 8

\* the vectors the diffusion operator is tried on: a*e_i + b*e_j
TestVectors(k) ==
  {[nbits |-> k, e |-> 0,
    v |-> [x \in Dim(k) |-> (IF x = i THEN a ELSE 0) + (IF x = j THEN b ELSE 0)]] :
     i \in Dim(k), j \in Dim(k), a \in {1, 3}, b \in {-2, 0, 1}}

\* C5: the diffusion operator hn(reflection(hn)) maps every vector c of
\* length N to 2*mean(c) - c_x in every component x: with the result held
\* as integers over N, N*(D.c)_x = 2*sum(c) - N*c_x.
C5_InversionAboutMean ==
  (pc = "loop" /\ applied = 0) =>
    LET D == Diffusion(Hadamard(nbits), Reflection(op_zero, nbits))
    IN  \A c \in TestVectors(nbits) :
          LET out == Apply(D, c)
          IN  /\ out.e = 2 * nbits
              /\ \A x \in Dim(nbits) :
                   out.v[x] = (2 * SumF(c.v, n)) - (n * c.v[x])

C5_Witness == pc = "loop" /\ applied = 0 /\ nbits = 3

\* C6: a predicate value other than 1 on the selected winner ends the run
\* in AssertionError: nothing runs after it (no retry, no further iteration,
\* no later experiment of main); a predicate value of 1 raises nothing.
C6_FatalVerification ==
  /\ [](raised <=> pc = "raised")
  /\ [](pc = "returned" => result = 1)
  /\ [][/\ (pc = "check" /\ result # 1) => (raised' /\ pc' = "raised")
        /\ (pc = "check" /\ result = 1) => (~raised' /\ pc' = "returned")
        /\ raised => UNCHANGED vars]_vars

C6_Witness == pc = "raised" /\ raised /\ result = 0 /\ applied = iterations

\* C7: G is applied exactly r times in a row, each pass on the state the
\* previous one left, with G and the oracle unchanged; the loop ends, and
\* the selection happens once, after the r-th pass.
C7_ExactlyRTimes ==
  /\ [](pc \in Selected =>
          /\ applied = iterations
          /\ psi = IterApply(grover, iterations,
                             HadamardLines(InitialPsi(nbits), nbits + 1)))
  /\ [][pc = "loop" =>
          /\ grover' = grover
          /\ u' = u
          /\ iterations' = iterations
          /\ (pc' = "loop" => (applied' = applied + 1 /\ psi' = Apply(grover, psi)))
          /\ (pc' # "loop" => (pc' = "check" /\ applied = iterations
                               /\ applied' = applied /\ psi' = psi))]_vars
  /\ [][(pc \in Selected /\ pc' \in Selected) =>
          (maxbits' = maxbits /\ result' = result /\ psi' = psi)]_vars
  /\ ((pc = "loop") ~> (pc = "check"))

C7_Witness == pc = "check" /\ nbits = 3 /\ applied = 2 /\ iterations = 2

\* C8: G applied to a state equals the oracle applied first and the padded
\* diffusion second, on every basis state of the nbits+1 lines and on the
\* running state; the padded diffusion leaves the ancilla line alone.
C8_OracleThenDiffusion ==
  pc = "loop" =>
    /\ \A j \in Dim(nbits + 1) :
         Apply(grover, Basis(nbits + 1, j))
           = Apply(inversion, Apply(u, Basis(nbits + 1, j)))
    /\ Apply(grover, psi) = Apply(inversion, Apply(u, psi))
    /\ \A a \in Dim(nbits), b \in Dim(nbits), y \in 0 .. 1, z \in 0 .. 1 :
         inversion.m[(2 * a) + y, (2 * b) + z]
           = IF y = z THEN inversion.m[2 * a, 2 * b] ELSE 0

C8_Witness == pc = "loop" /\ applied = 1 /\ nbits = 3

\* C9: the state entering the loop has every amplitude of magnitude
\* 1/sqrt(2^(nbits+1)), the amplitude of (x, 1) the negative of that of
\* (x, 0), and comes from one single-line Hadamard per line.
C9_InitialSuperposition ==
  (pc = "compose" \/ (pc = "loop" /\ applied = 0)) =>
    /\ line = nbits + 1
    /\ psi.nbits = nbits + 1
    /\ psi.e = nbits + 1
    /\ \A i \in Dim(nbits + 1) : ProbNum(psi, i) = 1
    /\ \A x \in Dim(nbits) : psi.v[(2 * x) + 1] = -psi.v[2 * x]
    /\ psi = HadamardLines(InitialPsi(nbits), nbits + 1)

C9_Witness == pc = "loop" /\ applied = 0 /\ nbits = 3 /\ psi.v[0] = 1 /\ psi.v[1] = -1

\* C10: the squared amplitude magnitudes of the state sum to 1 from the
\* initial state through every application of the iterate.
C10_Normalized ==
  pc \in HasState => NormNum(psi) = Pow2(psi.e)

C10_Witness == pc = "loop" /\ applied = 2 /\ nbits = 3 /\ NormNum(psi) = Pow2(psi.e)

====
